---- MODULE Spec2Model ----
(***************************************************************************)
(* A model of overleaf_mcp: the LaTeX section model (parse_sections,        *)
(* get_section_by_title, the update_section rewrite), the path resolver    *)
(* (validate_path) and the local git mirror that execute_tool drives       *)
(* (ensure_repo, create/edit/update/delete/sync and their commit           *)
(* pipeline).                                                               *)
(*                                                                         *)
(* Text is modelled as a sequence of one-character strings; offsets are    *)
(* Python offsets (0-based, end exclusive).                                 *)
(***************************************************************************)
EXTENDS Integers, Sequences, FiniteSets, TLC

VARIABLES
    mirror,   \* the on-disk mirror of the project: working tree, index, HEAD, log
    last,     \* the arguments and the result of the latest execute_tool call
    procs,    \* the position of each server process inside its pipeline
    sec,      \* section model: the document, the arguments and the tool's output
    pth,      \* path resolver: the caller's path and what validate_path returned
    calls,    \* the number of tool calls served so far
    reg,      \* project registry: the configuration, the name asked for, the answer
    http,     \* HTTP server: the request, the API key, the status answered
    hist      \* list_history: the commits of HEAD, the limit, the commits returned

vars == <<mirror, last, procs, sec, pth, calls, reg, http, hist>>

(***************************************************************************)
(* Helpers on sequences and sets.                                          *)
(***************************************************************************)
SetMin(S) == CHOOSE x \in S : \A y \in S : x <= y

\* Python's s[a:b] for 0 <= a, b (clamped to the length as Python does).
Slice(s, a, b) ==
    LET hi == IF b > Len(s) THEN Len(s) ELSE b
    IN  IF a >= hi THEN <<>> ELSE SubSeq(s, a + 1, hi)

\* s[a:]
SliceFrom(s, a) == Slice(s, a, Len(s))

\* Whether word w occurs in s at offset p.
OccursAt(s, p, w) ==
    /\ p >= 0
    /\ p + Len(w) <= Len(s)
    /\ \A i \in 1..Len(w) : s[p + i] = w[i]

(***************************************************************************)
(* str.lower() and str.strip() on the characters the model uses.           *)
(***************************************************************************)
LowerChar(c) ==
    CASE c = "A" -> "a" [] c = "B" -> "b" [] c = "C" -> "c" [] c = "D" -> "d"
      [] c = "E" -> "e" [] c = "F" -> "f" [] c = "G" -> "g" [] c = "H" -> "h"
      [] c = "I" -> "i" [] c = "J" -> "j" [] c = "K" -> "k" [] c = "L" -> "l"
      [] c = "M" -> "m" [] c = "N" -> "n" [] c = "O" -> "o" [] c = "P" -> "p"
      [] c = "Q" -> "q" [] c = "R" -> "r" [] c = "S" -> "s" [] c = "T" -> "t"
      [] c = "U" -> "u" [] c = "V" -> "v" [] c = "W" -> "w" [] c = "X" -> "x"
      [] c = "Y" -> "y" [] c = "Z" -> "z" [] OTHER -> c

Lower(s) == [i \in 1..Len(s) |-> LowerChar(s[i])]

Whitespace == {" ", "\n", "\t", "\r", "\f"}

Strip(s) ==
    LET keep == {i \in 1..Len(s) : s[i] \notin Whitespace}
    IN  IF keep = {} THEN <<>>
        ELSE SubSeq(s, SetMin(keep), CHOOSE x \in keep : \A y \in keep : y <= x)

(***************************************************************************)
(* SECTION_PATTERN:                                                        *)
(*   \\(part|chapter|section|subsection|subsubsection|paragraph|           *)
(*      subparagraph)\*?\{([^}]+)\}                                         *)
(***************************************************************************)
Kinds ==
    << <<"p","a","r","t">>,
       <<"c","h","a","p","t","e","r">>,
       <<"s","e","c","t","i","o","n">>,
       <<"s","u","b","s","e","c","t","i","o","n">>,
       <<"s","u","b","s","u","b","s","e","c","t","i","o","n">>,
       <<"p","a","r","a","g","r","a","p","h">>,
       <<"s","u","b","p","a","r","a","g","r","a","p","h">> >>

NoMatch == [ok |-> FALSE, start |-> 0, end |-> 0, type |-> <<>>, title |-> <<>>]

\* The offset of the first "}" at or after offset r, or -1.
FirstClose(s, r) ==
    LET E == {e \in r..(Len(s) - 1) : s[e + 1] = "}"}
    IN  IF E = {} THEN 0 - 1 ELSE SetMin(E)

\* \*? : the offset after an optional star at offset q.
StarEnd(s, q) == IF q < Len(s) /\ s[q + 1] = "*" THEN q + 1 ELSE q

\* ([^}]+)\} with the title starting at offset r and the first "}" at offset e:
\* [^}]+ takes at least one character.
MatchTitle(s, p, k, r, e) ==
    IF e > r
    THEN [ok |-> TRUE, start |-> p, end |-> e + 1, type |-> k, title |-> Slice(s, r, e)]
    ELSE NoMatch

\* \{([^}]+)\} at offset q2.
MatchBrace(s, p, k, q2) ==
    IF q2 < Len(s) /\ s[q2 + 1] = "{"
    THEN MatchTitle(s, p, k, q2 + 1, FirstClose(s, q2 + 1))
    ELSE NoMatch

\* The pattern tried at offset p with the i-th alternative of the kind group.
MatchKind(s, p, i) ==
    IF p < Len(s) /\ s[p + 1] = "\\" /\ OccursAt(s, p + 1, Kinds[i])
    THEN MatchBrace(s, p, Kinds[i], StarEnd(s, p + 1 + Len(Kinds[i])))
    ELSE NoMatch

\* The first alternative among I that matches at offset p.
MatchFirst(s, p, I) == IF I = {} THEN NoMatch ELSE MatchKind(s, p, SetMin(I))

\* The pattern tried at offset p.
MatchAt(s, p) == MatchFirst(s, p, {i \in 1..Len(Kinds) : MatchKind(s, p, i).ok})

\* SECTION_PATTERN.finditer(content): leftmost matches, not overlapping.
RECURSIVE FindIter(_, _)
FindCons(s, m) == <<m>> \o FindIter(s, m.end)

FindFrom(s, P) == IF P = {} THEN <<>> ELSE FindCons(s, MatchAt(s, SetMin(P)))

FindIter(s, pos) ==
    FindFrom(s, {p \in pos..(Len(s) - 1) : s[p + 1] = "\\" /\ MatchAt(s, p).ok})

(***************************************************************************)
(* parse_sections, get_section_by_title and the rewrite of update_section. *)
(***************************************************************************)
PreviewLen == 200

Ellipsis == <<".", ".", ".">>

\* The dict parse_sections appends for one match.
MakeSection(match, end_pos, section_content) ==
    [type      |-> match.type,
     title     |-> match.title,
     preview   |-> IF Len(section_content) > PreviewLen
                   THEN Slice(section_content, 0, PreviewLen) \o Ellipsis
                   ELSE section_content,
     start_pos |-> match.start,
     end_pos   |-> end_pos]

SectionOf(content, match, end_pos) ==
    MakeSection(match, end_pos, Strip(Slice(content, match.end, end_pos)))

\* parse_sections ending every section at the end of the document.
SectionsOf_ToEnd(content, matches) ==
    [i \in 1..Len(matches) |-> SectionOf(content, matches[i], Len(content))]

SectionsOf(content, matches) ==
    [i \in 1..Len(matches) |->
        SectionOf(content, matches[i],
                  IF i + 1 <= Len(matches) THEN matches[i + 1].start ELSE Len(content))]

\* parse_sections(content): one record per match, in document order.
ParseSections(content) == SectionsOf(content, FindIter(content, 0))

\* The indices of the sections whose title equals `title` ignoring case.
TitleMatches(sections, title) ==
    {i \in 1..Len(sections) : Lower(sections[i].title) = Lower(title)}

\* The loop of get_section_by_title over the parsed sections.
SectionText(content, sections, I) ==
    IF I = {} THEN [found |-> FALSE, text |-> <<>>]
    ELSE [found |-> TRUE,
          text  |-> Slice(content, sections[SetMin(I)].start_pos,
                          sections[SetMin(I)].end_pos)]

SectionTextIn(content, sections, title) ==
    SectionText(content, sections, TitleMatches(sections, title))

\* get_section_by_title(content, title): None, or the text it returns.
GetSectionByTitle(content, title) ==
    SectionTextIn(content, ParseSections(content), title)

\* The pattern \\<type>\*?\{<escaped title>\} tried at offset p; 0 when it fails,
\* else the offset where the match ends.
HeaderMatchEnd(content, p, type, title) ==
    IF ~(p < Len(content) /\ content[p + 1] = "\\" /\ OccursAt(content, p + 1, type))
    THEN 0
    ELSE IF OccursAt(content, p + 1 + Len(type), <<"*", "{">> \o title \o <<"}">>)
    THEN p + 1 + Len(type) + Len(title) + 3
    ELSE IF OccursAt(content, p + 1 + Len(type), <<"{">> \o title \o <<"}">>)
    THEN p + 1 + Len(type) + Len(title) + 2
    ELSE 0

SearchFirst(content, type, title, P) ==
    IF P = {} THEN [ok |-> FALSE, end |-> 0]
    ELSE [ok |-> TRUE, end |-> HeaderMatchEnd(content, SetMin(P), type, title)]

\* re.search of that pattern over the whole content: the leftmost match.
SearchHeader(content, type, title) ==
    SearchFirst(content, type, title,
                {p \in 0..(Len(content) - 1) : HeaderMatchEnd(content, p, type, title) > 0})

\* new_file_content, given the located section and its header match.
Rewrite(content, section, header_match, new_content) ==
    IF ~header_match.ok THEN [status |-> "noheader", out |-> content]
    ELSE [status |-> "ok",
          out |-> Slice(content, 0, header_match.end)
                    \o <<"\n">> \o Strip(new_content) \o <<"\n">>
                    \o SliceFrom(content, section.end_pos)]

RewriteSection(content, section, new_content) ==
    Rewrite(content, section, SearchHeader(content, section.type, section.title),
            new_content)

\* update_section taking the last section with the title, not the first.
UpdateFound_Last(content, sections, I, new_content) ==
    IF I = {} THEN [status |-> "notfound", out |-> content]
    ELSE RewriteSection(content, sections[CHOOSE i \in I : \A j \in I : j <= i],
                        new_content)

UpdateFound(content, sections, I, new_content) ==
    IF I = {} THEN [status |-> "notfound", out |-> content]
    ELSE RewriteSection(content, sections[SetMin(I)], new_content)

UpdateIn(content, sections, section_title, new_content) ==
    UpdateFound(content, sections, TitleMatches(sections, section_title), new_content)

\* The text update_section writes (status "ok"), or why it writes nothing.
UpdateSection(content, section_title, new_content) ==
    UpdateIn(content, ParseSections(content), section_title, new_content)

SectionAnswer(r) ==
    IF r.found THEN [status |-> "ok", out |-> r.text]
    ELSE [status |-> "notfound", out |-> <<>>]

\* What get_section_content answers.
GetSectionContent(content, section_title) ==
    SectionAnswer(GetSectionByTitle(content, section_title))

\* The characters of a preview that get_sections prints.
ShownLen == 100

\* f"  Preview: {s['preview'][:100]}..."
ShownPreview(preview) == Slice(preview, 0, ShownLen) \o Ellipsis

\* The entry get_sections prints for one section.
ShownSection(s) == [type |-> s.type, title |-> s.title, preview |-> ShownPreview(s.preview)]

ListAnswer(sections) ==
    [status   |-> IF sections = <<>> THEN "nosections" ELSE "ok",
     sections |-> sections,
     shown    |-> [i \in 1..Len(sections) |-> ShownSection(sections[i])]]

\* What get_sections answers: the parsed sections and the entries printed.
GetSections(content) == ListAnswer(ParseSections(content))

(***************************************************************************)
(* The documents, titles and new contents the section model is run on.     *)
(***************************************************************************)
MaxPieces == 3

TIntro == <<"I", "n", "t", "r", "o">>
TOther == <<"M">>

HIntro == <<"\\", "s", "e", "c", "t", "i", "o", "n", "{">> \o TIntro \o <<"}">>
HSubStar == <<"\\", "s", "u", "b", "s", "e", "c", "t", "i", "o", "n", "*", "{",
              "i", "n", "t", "r", "o", "}">>
HOpen == <<"\\", "p", "a", "r", "a", "g", "r", "a", "p", "h", "{", "a">>

Pieces == {HIntro, HSubStar, HOpen, <<"\n">>, <<"H", "i">>, <<" ">>}

RECURSIVE DocsOfLen(_)
DocsOfLen(n) ==
    IF n = 0 THEN {<<>>}
    ELSE {d \o p : d \in DocsOfLen(n - 1), p \in Pieces}

\* "\section{Intro}\nHello\n\section{Methods}\nWorld\n"
ScenarioDoc ==
    HIntro \o <<"\n", "H", "e", "l", "l", "o", "\n">>
      \o <<"\\", "s", "e", "c", "t", "i", "o", "n", "{",
           "M", "e", "t", "h", "o", "d", "s", "}">>
      \o <<"\n", "W", "o", "r", "l", "d", "\n">>

\* "\paragraph{a\section{Intro}\section{Intro}\section{Intro}"
ShadowedDoc == HOpen \o HIntro \o HIntro \o HIntro

Docs == UNION {DocsOfLen(n) : n \in 0..MaxPieces} \cup {ScenarioDoc, ShadowedDoc}

Titles == {TIntro, TOther}

NewContents == {<<"G", "o", "o", "d", "b", "y", "e">>, <<" ", "B", "y", "e", "\n">>}

(***************************************************************************)
(* Values of the variables a specification does not use.                   *)
(***************************************************************************)
IdleSec == [content |-> <<>>, section_title |-> <<>>, new_content |-> <<>>,
            tool |-> "none", status |-> "none", out |-> <<>>, read |-> <<>>,
            sections |-> <<>>, shown |-> <<>>, once |-> <<>>]

IdlePth == [project_id |-> <<>>, target_path |-> <<>>, status |-> "none",
            resolved |-> <<>>, staged |-> <<>>]

\* No mirror directory on disk.
AbsentMirror ==
    [exists |-> FALSE, wt |-> <<>>, index |-> <<>>, head |-> <<>>, log |-> <<>>,
     identity |-> FALSE, unpushed |-> 0]

IdleMirror == AbsentMirror

NoPull == [kind |-> "none", path |-> "", content |-> <<>>]

NoClone == [kind |-> "none", tree |-> <<>>]

IdleLast == [tool |-> "none", file_path |-> "", section_title |-> <<>>,
             res |-> "none", reached |-> "start",
             pull |-> NoPull, clone |-> NoClone, push |-> "none",
             valid |-> "none", access |-> "", listed |-> <<>>]

IdleProcs == <<>>

\* project_name is None / defaultProject is absent.
None == "<None>"

\* Header(None): the request carries no Authorization header.
NoHeader == <<"<None>">>

IdleHttp == [endpoint |-> "none", auth |-> FALSE, API_KEY |-> <<>>,
             authorization |-> NoHeader, raises |-> FALSE, status |-> 0,
             executed |-> FALSE, result |-> "none"]

IdleHist == [commits |-> 0, given |-> FALSE, limit |-> 0, status |-> "none",
             returned |-> 0]

IdleReg == [file |-> FALSE, projects |-> <<>>, defaultProject |-> None,
            env_id |-> FALSE, env_token |-> FALSE, project_name |-> None,
            status |-> "none", key |-> None]

(***************************************************************************)
(* SpecSection: the section tools applied to a document.                   *)
(***************************************************************************)
InitSection ==
    /\ \E d \in Docs, t \in Titles, n \in NewContents :
          sec = [IdleSec EXCEPT !.content = d, !.section_title = t, !.new_content = n]
    /\ mirror = IdleMirror
    /\ last = IdleLast
    /\ procs = IdleProcs
    /\ pth = IdlePth
    /\ calls = 0
    /\ reg = IdleReg
    /\ http = IdleHttp
    /\ hist = IdleHist

\* update_section(section_title, new_content) on the document.
SecUpdate ==
    /\ sec.tool = "none"
    /\ LET r == UpdateSection(sec.content, sec.section_title, sec.new_content)
       IN  sec' = [sec EXCEPT !.tool = "update_section", !.status = r.status, !.out = r.out]
    /\ UNCHANGED <<mirror, last, procs, pth, calls, reg, http, hist>>

\* get_section_content(section_title) on the document.
SecRead ==
    /\ sec.tool = "none"
    /\ LET r == GetSectionContent(sec.content, sec.section_title)
       IN  sec' = [sec EXCEPT !.tool = "get_section_content", !.status = r.status,
                              !.out = r.out, !.read = r.out]
    /\ UNCHANGED <<mirror, last, procs, pth, calls, reg, http, hist>>

\* update_section with the text the preceding get_section_content returned.
SecWriteBack ==
    /\ sec.tool = "get_section_content"
    /\ sec.status = "ok"
    /\ LET r == UpdateSection(sec.content, sec.section_title, sec.read)
       IN  sec' = [sec EXCEPT !.tool = "write_back", !.status = r.status, !.out = r.out]
    /\ UNCHANGED <<mirror, last, procs, pth, calls, reg, http, hist>>

\* get_sections on the document.
SecList ==
    /\ sec.tool = "none"
    /\ LET r == GetSections(sec.content)
       IN  sec' = [sec EXCEPT !.tool = "get_sections", !.status = r.status,
                              !.sections = r.sections, !.shown = r.shown]
    /\ UNCHANGED <<mirror, last, procs, pth, calls, reg, http, hist>>

\* The same update_section call made again, on the document the first wrote.
SecUpdateAgain ==
    /\ sec.tool = "update_section"
    /\ sec.status = "ok"
    /\ LET r == UpdateSection(sec.out, sec.section_title, sec.new_content)
       IN  sec' = [sec EXCEPT !.tool = "update_again", !.status = r.status,
                              !.out = r.out, !.once = sec.out]
    /\ UNCHANGED <<mirror, last, procs, pth, calls, reg, http, hist>>

NextSection == SecUpdate \/ SecRead \/ SecWriteBack \/ SecList \/ SecUpdateAgain

SpecSection == InitSection /\ [][NextSection]_vars

(***************************************************************************)
(* The project registry: load_config and get_project_config.  The keys of  *)
(* the "projects" object keep the order of the file.                       *)
(***************************************************************************)
ProjectKeys == {"a", "b"}

\* The "projects" objects a configuration file can hold.
ProjectLists == {<<>>, <<"a">>, <<"b">>, <<"a", "b">>, <<"b", "a">>}

\* "defaultProject": absent, a configured key, or a key "projects" lacks.
DefaultChoices == {None, "a", "b", "z"}

ProjectNames == {None, "a", "b"}

\* load_config(): the file when it exists, else the environment variables.
LoadConfig(r) ==
    IF r.file THEN [projects |-> r.projects, default_project |-> r.defaultProject]
    ELSE IF r.env_id /\ r.env_token
    THEN [projects |-> <<"default">>, default_project |-> "default"]
    ELSE [projects |-> <<>>, default_project |-> None]

Keys(config) == {config.projects[i] : i \in 1..Len(config.projects)}

\* project_name = config.default_project or next(iter(config.projects.keys()))
PickName(config, project_name) ==
    IF project_name # None THEN project_name
    ELSE IF config.default_project # None THEN config.default_project
    ELSE config.projects[1]

LookupKey(config, name) ==
    IF name \notin Keys(config) THEN [status |-> "notfound", key |-> None]
    ELSE [status |-> "ok", key |-> name]

\* get_project_config(project_name) on the loaded configuration.
GetProjectConfig(config, project_name) ==
    IF config.projects = <<>> THEN [status |-> "noprojects", key |-> None]
    ELSE LookupKey(config, PickName(config, project_name))

InitRegistry ==
    /\ \E n \in ProjectNames :
         \/ \E ps \in ProjectLists, d \in DefaultChoices :
               reg = [IdleReg EXCEPT !.file = TRUE, !.projects = ps,
                                     !.defaultProject = d, !.project_name = n]
         \/ \E i, t \in BOOLEAN :
               reg = [IdleReg EXCEPT !.env_id = i, !.env_token = t, !.project_name = n]
    /\ mirror = IdleMirror
    /\ last = IdleLast
    /\ procs = IdleProcs
    /\ sec = IdleSec
    /\ pth = IdlePth
    /\ calls = 0
    /\ http = IdleHttp
    /\ hist = IdleHist

\* A tool resolves its project: get_project_config(arguments.get("project_name")).
RegLookup ==
    /\ reg.status = "none"
    /\ LET r == GetProjectConfig(LoadConfig(reg), reg.project_name)
       IN  reg' = [reg EXCEPT !.status = r.status, !.key = r.key]
    /\ UNCHANGED <<mirror, last, procs, sec, pth, calls, http, hist>>

NextRegistry == RegLookup

SpecRegistry == InitRegistry /\ [][NextRegistry]_vars

(***************************************************************************)
(* list_history: how many commits it returns for a limit.                  *)
(***************************************************************************)
DefaultLimit == 20

MaxLimit == 100

\* The number of commits in the history of HEAD.
HistoryLengths == {0, 1, 20, 21, 100, 101, 150}

\* The limit argument when the caller gives one.
Limits == {-5, -1, 0, 1, 20, 21, 100, 101, 1000}

Min(a, b) == IF a <= b THEN a ELSE b

\* limit = min(arguments.get("limit", 20), 100)
LimitOf(given, limit) == Min(IF given THEN limit ELSE DefaultLimit, MaxLimit)

\* len(list(repo.iter_commits(max_count=n))) on a history of c commits:
\* git rev-list --max-count=n stops after n commits, at once for 0, and
\* never for a negative n.
IterCommits(c, n) == IF n < 0 THEN c ELSE Min(c, n)

ListedCommits(h) == IterCommits(h.commits, LimitOf(h.given, h.limit))

InitHistory ==
    /\ \E c \in HistoryLengths, g \in BOOLEAN, l \in Limits :
          hist = [IdleHist EXCEPT !.commits = c, !.given = g,
                                  !.limit = IF g THEN l ELSE 0]
    /\ mirror = IdleMirror
    /\ last = IdleLast
    /\ procs = IdleProcs
    /\ sec = IdleSec
    /\ pth = IdlePth
    /\ calls = 0
    /\ reg = IdleReg
    /\ http = IdleHttp

\* list_history(limit) after ensure_repo: the commits listed, or "No commits found".
HistList ==
    /\ hist.status = "none"
    /\ hist' = [hist EXCEPT !.returned = ListedCommits(hist),
                            !.status = IF ListedCommits(hist) = 0 THEN "nocommits"
                                       ELSE "history"]
    /\ UNCHANGED <<mirror, last, procs, sec, pth, calls, reg, http>>

NextHistory == HistList

SpecHistory == InitHistory /\ [][NextHistory]_vars

(***************************************************************************)
(* The HTTP server (fastapi_server.py): each endpoint hands its arguments  *)
(* to execute_tool; an endpoint declared with Depends(verify_api_key)      *)
(* runs verify_api_key first.                                              *)
(***************************************************************************)
\* The endpoints: the tool each calls and whether it depends on verify_api_key.
Endpoints ==
    {[tool |-> "create_project", auth |-> TRUE],
     [tool |-> "create_file", auth |-> TRUE],
     [tool |-> "list_projects", auth |-> FALSE],
     [tool |-> "list_files", auth |-> FALSE],
     [tool |-> "read_file", auth |-> FALSE],
     [tool |-> "get_sections", auth |-> FALSE],
     [tool |-> "get_section_content", auth |-> FALSE],
     [tool |-> "list_history", auth |-> FALSE],
     [tool |-> "get_diff", auth |-> FALSE],
     [tool |-> "edit_file", auth |-> TRUE],
     [tool |-> "rewrite_file", auth |-> TRUE],
     [tool |-> "update_section", auth |-> TRUE],
     [tool |-> "sync_project", auth |-> TRUE],
     [tool |-> "delete_file", auth |-> TRUE]}

Bearer == <<"B", "e", "a", "r", "e", "r", " ">>

\* The values of the API_KEY environment variable ("": not set).
ApiKeys == {<<>>, <<"k">>}

\* The Authorization headers a request can carry.
AuthHeaders ==
    {NoHeader, <<>>, <<"k">>, Bearer \o <<"k">>, Bearer \o <<"x">>,
     Bearer \o Bearer \o <<"k">>, <<"B", "a", "s", "i", "c", " ", "k">>}

\* s.replace(w, ""): every occurrence of w removed, left to right.
RECURSIVE RemoveAll(_, _)
RemoveAll(s, w) ==
    IF s = <<>> THEN <<>>
    ELSE IF OccursAt(s, 0, w) THEN RemoveAll(SliceFrom(s, Len(w)), w)
    ELSE <<Head(s)>> \o RemoveAll(Tail(s), w)

\* verify_api_key(authorization): 401, or 200 when it returns.
VerifyApiKey(key, authorization) ==
    IF key = <<>> THEN 200
    ELSE IF authorization = NoHeader \/ authorization = <<>> THEN 401
    ELSE IF ~OccursAt(authorization, 0, Bearer) THEN 401
    ELSE IF RemoveAll(authorization, Bearer) # key THEN 401
    ELSE 200

\* The names list_tools advertises.
ListedTools ==
    {"create_project", "create_file", "list_projects", "list_files", "read_file",
     "get_sections", "get_section_content", "list_history", "get_diff",
     "edit_file", "update_section", "sync_project", "delete_file"}

\* The names execute_tool has a branch for; every other name is answered
\* "Unknown tool: ..." as an ordinary result.
HandledTools ==
    {"create_project", "create_file", "list_projects", "list_files", "read_file",
     "get_sections", "get_section_content", "list_history", "get_diff",
     "edit_file", "update_section", "sync_project", "delete_file"}

\* The endpoint body: execute_tool, its exception answered with status 400,
\* its result with status 200.
Execute(tool, raises) ==
    IF tool \notin HandledTools
    THEN [status |-> 200, executed |-> TRUE, result |-> "unknown_tool"]
    ELSE IF raises THEN [status |-> 400, executed |-> TRUE, result |-> "error"]
    ELSE [status |-> 200, executed |-> TRUE, result |-> "tool_result"]

Answer(verified, tool, raises) ==
    IF verified = 401 THEN [status |-> 401, executed |-> FALSE, result |-> "none"]
    ELSE Execute(tool, raises)

\* One request to an endpoint.
Handle(h) ==
    IF h.auth
    THEN Answer(VerifyApiKey(h.API_KEY, h.authorization), h.endpoint, h.raises)
    ELSE Execute(h.endpoint, h.raises)

InitHttp ==
    /\ \E e \in Endpoints, k \in ApiKeys, a \in AuthHeaders, r \in BOOLEAN :
          http = [IdleHttp EXCEPT !.endpoint = e.tool, !.auth = e.auth, !.API_KEY = k,
                                  !.authorization = a, !.raises = r]
    /\ mirror = IdleMirror
    /\ last = IdleLast
    /\ procs = IdleProcs
    /\ sec = IdleSec
    /\ pth = IdlePth
    /\ calls = 0
    /\ reg = IdleReg
    /\ hist = IdleHist

HttpRequest ==
    /\ http.status = 0
    /\ LET r == Handle(http)
       IN  http' = [http EXCEPT !.status = r.status, !.executed = r.executed,
                                !.result = r.result]
    /\ UNCHANGED <<mirror, last, procs, sec, pth, calls, reg, hist>>

NextHttp == HttpRequest

SpecHttp == InitHttp /\ [][NextHttp]_vars

(***************************************************************************)
(* The path resolver.  A path is a sequence of segments, a segment a       *)
(* sequence of characters; str(path) joins the segments with "/".  The     *)
(* mirror root is Path(TEMP_DIR) / project_id resolved against the         *)
(* server's working directory.                                             *)
(***************************************************************************)
MaxPathLen == 5

PathChars == {".", "/", "p", "q"}

Cwd == << <<"w">> >>

TempDirName == <<"c">>

ProjectIds == {<<"p">>, <<"p", "q">>}

\* get_repo_path(project_id), made absolute.
RepoPath(project_id) == Cwd \o <<TempDirName, project_id>>

RECURSIVE StringsOfLen(_)
StringsOfLen(n) ==
    IF n = 0 THEN {<<>>}
    ELSE {t \o <<c>> : t \in StringsOfLen(n - 1), c \in PathChars}

PathStrings == UNION {StringsOfLen(n) : n \in 0..MaxPathLen}

\* Longer caller paths: a file of the sibling mirror, a path that is not
\* normalised.
LongPaths ==
    {<<".", ".", "/", "p", "q", "/", "q">>, <<"q", "/", ".", ".", "/", "p">>}

\* The segments of a path string: split on "/".
RECURSIVE SplitPath(_, _)
SplitPath(t, cur) ==
    IF t = <<>> THEN <<cur>>
    ELSE IF Head(t) = "/" THEN <<cur>> \o SplitPath(Tail(t), <<>>)
    ELSE SplitPath(Tail(t), Append(cur, Head(t)))

\* base_path / target_path : an absolute target replaces the base.
JoinPath(base, t) ==
    IF t # <<>> /\ Head(t) = "/" THEN SplitPath(t, <<>>)
    ELSE base \o SplitPath(t, <<>>)

\* Path.resolve() without symbolic links: empty and "." segments are dropped,
\* ".." removes the segment before it (and stays at "/").
RECURSIVE ResolveSegs(_, _)
ResolveSegs(segs, acc) ==
    IF segs = <<>> THEN acc
    ELSE IF Head(segs) = <<>> \/ Head(segs) = <<".">> THEN ResolveSegs(Tail(segs), acc)
    ELSE IF Head(segs) = <<".", ".">>
    THEN ResolveSegs(Tail(segs), IF acc = <<>> THEN acc ELSE SubSeq(acc, 1, Len(acc) - 1))
    ELSE ResolveSegs(Tail(segs), Append(acc, Head(segs)))

\* str(path) of an absolute path.
RECURSIVE JoinSegs(_)
JoinSegs(segs) ==
    IF segs = <<>> THEN <<>> ELSE <<"/">> \o Head(segs) \o JoinSegs(Tail(segs))

StrOfPath(segs) == IF segs = <<>> THEN <<"/">> ELSE JoinSegs(segs)

\* a.startswith(b)
StartsWith(a, b) == Len(b) <= Len(a) /\ SubSeq(a, 1, Len(b)) = b

\* The check of validate_path on the resolved path.
CheckResolved(base, resolved) ==
    IF ~StartsWith(StrOfPath(resolved), StrOfPath(ResolveSegs(base, <<>>)))
    THEN [status |-> "escape", resolved |-> <<>>]
    ELSE [status |-> "ok", resolved |-> resolved]

\* validate_path(base_path, target_path): ValueError ("escape"), or the path.
ValidatePath(base, target_path) ==
    CheckResolved(base, ResolveSegs(JoinPath(base, target_path), <<>>))

\* repo.index.add([file_path]): the path of the index entry is the caller's
\* string as given, an absolute one with the working tree's prefix cut off;
\* the entry's path components are its "/"-separated pieces.
IndexEntryPath(base, file_path) ==
    IF file_path # <<>> /\ Head(file_path) = "/"
    THEN SplitPath(RemoveAll(file_path, StrOfPath(base) \o <<"/">>), <<>>)
    ELSE SplitPath(file_path, <<>>)

\* What a mutating tool stages after validate_path accepted the path.
Staged(r, base, file_path) ==
    IF r.status = "ok" THEN IndexEntryPath(base, file_path) ELSE <<>>

(***************************************************************************)
(* SpecPath: validate_path applied to a caller's path string, and the path *)
(* a mutating tool stages for it.                                          *)
(***************************************************************************)
InitPath ==
    /\ \E t \in PathStrings \cup LongPaths, id \in ProjectIds :
          pth = [project_id |-> id, target_path |-> t, status |-> "none",
                 resolved |-> <<>>, staged |-> <<>>]
    /\ mirror = IdleMirror
    /\ last = IdleLast
    /\ procs = IdleProcs
    /\ sec = IdleSec
    /\ calls = 0
    /\ reg = IdleReg
    /\ http = IdleHttp
    /\ hist = IdleHist

PathValidate ==
    /\ pth.status = "none"
    /\ LET r == ValidatePath(RepoPath(pth.project_id), pth.target_path)
       IN  pth' = [pth EXCEPT !.status = r.status, !.resolved = r.resolved,
                              !.staged = Staged(r, RepoPath(pth.project_id),
                                                pth.target_path)]
    /\ UNCHANGED <<mirror, last, procs, sec, calls, reg, http, hist>>

NextPath == PathValidate

SpecPath == InitPath /\ [][NextPath]_vars

(***************************************************************************)
(* The local mirror.  A tree maps the paths that exist to their content.   *)
(*   wt        the working tree (what Path.exists / read_text / write_text *)
(*             see)                                                         *)
(*   index     the git index (what index.add / index.remove change)        *)
(*   head      the tree of HEAD                                             *)
(*   log       the commits added since the clone: the paths each changed   *)
(*             against its parent, and the tool call that made it           *)
(*   identity  whether user.name is configured                              *)
(*   unpushed  the number of local commits origin has not received          *)
(***************************************************************************)
MaxCommits == 2

MaxCalls == 2

Files == {"a.tex", "b.tex"}

\* A path a caller can send that leaves the mirror root.
OutsidePath == "../o.tex"

CallerPaths == Files \cup {OutsidePath}

\* The project the calls are made on.
ProjectId == <<"p">>

\* The characters of a path argument.
PathText(p) ==
    CASE p = "a.tex" -> <<"a", ".", "t", "e", "x">>
      [] p = "b.tex" -> <<"b", ".", "t", "e", "x">>
      [] p = "../o.tex" -> <<".", ".", "/", "o", ".", "t", "e", "x">>
      [] OTHER -> <<>>

Put(t, p, c) == [q \in (DOMAIN t) \cup {p} |-> IF q = p THEN c ELSE t[q]]

Del(t, p) == [q \in (DOMAIN t) \ {p} |-> t[q]]

Has(t, p) == p \in DOMAIN t

\* Whether trees t and u hold the same thing at path p.
SameAt(t, u, p) == (Has(t, p) <=> Has(u, p)) /\ (Has(t, p) /\ Has(u, p) => t[p] = u[p])

\* The paths on which two trees differ.
Diff(t, u) == {p \in (DOMAIN t) \cup (DOMAIN u) : ~SameAt(t, u, p)}

\* "\section{A}\nx\n" and "\section{A}\ny\n"
DocX == <<"\\", "s", "e", "c", "t", "i", "o", "n", "{", "A", "}", "\n", "x", "\n">>
DocY == <<"\\", "s", "e", "c", "t", "i", "o", "n", "{", "A", "}", "\n", "y", "\n">>

FileContents == {DocX, DocY}

SectionArgs == {<<"A">>, <<"Z">>}

BodyArgs == {<<"y">>}

\* What the remote holds when the project is cloned.
CloneTrees == {[p \in {"a.tex"} |-> DocX]}

\* What origin.pull() can do: nothing new, a collaborator's change to one
\* path, a git failure (GitCommandError), or any other exception.
PullChoices ==
    {[kind |-> k, path |-> "", content |-> <<>>] :
        k \in {"uptodate", "GitCommandError", "OtherError"}}
      \cup {[kind |-> "updated", path |-> p, content |-> DocY] : p \in Files}

CloneChoices ==
    {[kind |-> "cloned", tree |-> t] : t \in CloneTrees}
      \cup {[kind |-> "clone_failed", tree |-> <<>>]}

\* Repo.is_dirty(): index against HEAD, then working tree against index;
\* untracked files are not looked at.
IsDirty(m) ==
    \/ m.index # m.head
    \/ \E p \in DOMAIN m.index : ~SameAt(m.wt, m.index, p)

\* git merges a remote change to a path only over an unmodified path.
CanMerge(m, pc) ==
    /\ SameAt(m.wt, m.head, pc.path)
    /\ SameAt(m.index, m.head, pc.path)

\* What the pull does here: a change that cannot be merged is a git failure,
\* a change that changes nothing is no change.
EffectivePull(m, pc) ==
    IF pc.kind # "updated" THEN pc
    ELSE IF Has(m.head, pc.path) /\ m.head[pc.path] = pc.content
    THEN [kind |-> "uptodate", path |-> "", content |-> <<>>]
    ELSE IF ~CanMerge(m, pc)
    THEN [kind |-> "GitCommandError", path |-> "", content |-> <<>>]
    ELSE pc

\* The mirror after origin.pull() ended as pc says.
PullApply(m, pc) ==
    IF pc.kind # "updated" THEN m
    ELSE [m EXCEPT !.wt = Put(m.wt, pc.path, pc.content),
                   !.index = Put(m.index, pc.path, pc.content),
                   !.head = Put(m.head, pc.path, pc.content),
                   !.log = Append(m.log, [changed |-> {pc.path}, tool |-> "remote",
                                          path |-> pc.path])]

\* Repo.clone_from(git_url, repo_path)
CloneApply(cc) ==
    [AbsentMirror EXCEPT !.exists = TRUE, !.wt = cc.tree, !.index = cc.tree,
                         !.head = cc.tree]

(***************************************************************************)
(* A handler's progress: the mirror so far, the result ("run" while it    *)
(* is still running), the last step entered, the pull or the clone that  *)
(* ensure_repo made, how the push ended, what validate_path said of the   *)
(* caller's path, the path handed to a file or git access ("": none) and  *)
(* the section titles a "not found" answer lists.                          *)
(***************************************************************************)
Start(m) == [m |-> m, res |-> "run", reached |-> "start", pull |-> NoPull,
             clone |-> NoClone, push |-> "none", valid |-> "none", access |-> "",
             listed |-> <<>>]

\* ensure_repo with the pull ending as pc: only GitCommandError is caught.
EnsurePull(o, pc) ==
    IF pc.kind = "OtherError"
    THEN [o EXCEPT !.res = "error", !.reached = "ensure", !.pull = pc]
    ELSE [o EXCEPT !.m = PullApply(o.m, pc), !.reached = "ensure", !.pull = pc]

\* ensure_repo on an absent mirror: clone, or the clone's exception.
EnsureClone(o, cc) ==
    IF cc.kind = "clone_failed"
    THEN [o EXCEPT !.res = "error", !.reached = "ensure", !.clone = cc]
    ELSE [o EXCEPT !.m = CloneApply(cc), !.reached = "ensure", !.clone = cc]

\* ensure_repo opening an existing mirror without pulling.
EnsureRepo_NoPull(o, env) ==
    IF o.res # "run" THEN o
    ELSE IF o.m.exists THEN [o EXCEPT !.reached = "ensure"]
    ELSE EnsureClone(o, env.clone)

\* ensure_repo(project)
EnsureRepo(o, env) ==
    IF o.res # "run" THEN o
    ELSE IF o.m.exists THEN EnsurePull(o, EffectivePull(o.m, env.pull))
    ELSE EnsureClone(o, env.clone)

\* target_path = validate_path(repo_path, file_path): a ValueError ends the call.
ValidateStep(o, r) ==
    IF r.status = "escape"
    THEN [o EXCEPT !.res = "error", !.reached = "validate", !.valid = "escape"]
    ELSE [o EXCEPT !.reached = "validate", !.valid = "ok"]

Validate(o, a) ==
    IF o.res # "run" THEN o
    ELSE ValidateStep(o, ValidatePath(RepoPath(ProjectId), PathText(a.file_path)))

\* create_file without its existence check.
CheckAbsent_Skipped(o, a) ==
    IF o.res # "run" THEN o ELSE [o EXCEPT !.reached = "check"]

\* if target_path.exists(): return "Error: ... already exists"
CheckAbsent(o, a) ==
    IF o.res # "run" THEN o
    ELSE IF Has(o.m.wt, a.file_path)
    THEN [o EXCEPT !.res = "exists", !.reached = "check", !.access = a.file_path]
    ELSE [o EXCEPT !.reached = "check", !.access = a.file_path]

\* edit_file, update_section and delete_file going on when the file is
\* missing, unless the step after needs its content.
CheckPresent_Skipped(o, a) ==
    IF o.res # "run" THEN o
    ELSE IF ~Has(o.m.wt, a.file_path) /\ a.tool = "update_section"
    THEN [o EXCEPT !.res = "notfound", !.reached = "check"]
    ELSE [o EXCEPT !.reached = "check"]

\* if not target_path.exists(): return "Error: ... not found"
CheckPresent(o, a) ==
    IF o.res # "run" THEN o
    ELSE IF ~Has(o.m.wt, a.file_path)
    THEN [o EXCEPT !.res = "notfound", !.reached = "check", !.access = a.file_path]
    ELSE [o EXCEPT !.reached = "check", !.access = a.file_path]

\* target_path.write_text(content)
WriteText(o, a, env) ==
    IF o.res # "run" THEN o
    ELSE IF env.fail = "write" THEN [o EXCEPT !.res = "error", !.reached = "write"]
    ELSE [o EXCEPT !.m.wt = Put(o.m.wt, a.file_path, a.content), !.reached = "write"]

\* config_git_user(repo)
ConfigGitUser(o, env) ==
    IF o.res # "run" THEN o
    ELSE IF env.fail = "identity" THEN [o EXCEPT !.res = "error", !.reached = "identity"]
    ELSE [o EXCEPT !.m.identity = TRUE, !.reached = "identity"]

\* repo.index.add([file_path])
IndexAdd(o, a, env) ==
    IF o.res # "run" THEN o
    ELSE IF env.fail = "add" THEN [o EXCEPT !.res = "error", !.reached = "add"]
    ELSE [o EXCEPT !.m.index = Put(o.m.index, a.file_path, o.m.wt[a.file_path]),
                   !.reached = "add"]

\* repo.index.remove([file_path]): git rm --cached fails on a path the index
\* does not hold.
IndexRemove(o, a, env) ==
    IF o.res # "run" THEN o
    ELSE IF env.fail = "remove" \/ ~Has(o.m.index, a.file_path)
    THEN [o EXCEPT !.res = "error", !.reached = "remove"]
    ELSE [o EXCEPT !.m.index = Del(o.m.index, a.file_path), !.reached = "remove"]

\* target_path.unlink()
Unlink(o, a, env) ==
    IF o.res # "run" THEN o
    ELSE IF env.fail = "unlink" THEN [o EXCEPT !.res = "error", !.reached = "unlink"]
    ELSE [o EXCEPT !.m.wt = Del(o.m.wt, a.file_path), !.reached = "unlink"]

\* repo.index.commit(commit_message): the commit holds the whole index.
IndexCommit(o, a, env) ==
    IF o.res # "run" THEN o
    ELSE IF env.fail = "commit" THEN [o EXCEPT !.res = "error", !.reached = "commit"]
    ELSE [o EXCEPT !.m.head = o.m.index,
                   !.m.log = Append(o.m.log, [changed |-> Diff(o.m.index, o.m.head),
                                              tool |-> a.tool, path |-> a.file_path]),
                   !.m.unpushed = o.m.unpushed + 1,
                   !.reached = "commit"]

\* if push: repo.remotes.origin.push(); return "... pushed"  else "... (not pushed)"
Push(o, a, env) ==
    IF o.res # "run" THEN o
    ELSE IF ~a.push THEN [o EXCEPT !.res = "notpushed"]
    ELSE IF env.fail = "push"
    THEN [o EXCEPT !.res = "error", !.reached = "push", !.push = "raised"]
    ELSE IF env.fail = "rejected"
    THEN [o EXCEPT !.res = "pushed", !.reached = "push", !.push = "rejected"]
    ELSE [o EXCEPT !.res = "pushed", !.reached = "push", !.push = "ok",
                   !.m.unpushed = 0]

\* The commit pipeline shared by create_file, edit_file and update_section.
StageCommitPush(o, a, env) ==
    Push(IndexCommit(IndexAdd(ConfigGitUser(o, env), a, env), a, env), a, env)

\* execute_tool, name == "create_file"
CreateFile(m, a, env) ==
    StageCommitPush(
        WriteText(CheckAbsent(Validate(EnsureRepo(Start(m), env), a), a), a, env), a, env)

\* execute_tool, name == "edit_file"
EditFile(m, a, env) ==
    StageCommitPush(
        WriteText(CheckPresent(Validate(EnsureRepo(Start(m), env), a), a), a, env), a, env)

\* update_section: parse, locate and build new_file_content, or return early.
\* ", ".join(f"'{s['title']}'" for s in sections)
AvailableTitles(sections) == [i \in 1..Len(sections) |-> sections[i].title]

\* update_section writing on whether or not the title was found.
RewriteStep_Ignore(o, r, sections) == [o EXCEPT !.reached = "rewrite"]

RewriteStep(o, r, sections) ==
    IF r.status = "ok" THEN [o EXCEPT !.reached = "rewrite"]
    ELSE IF r.status = "notfound"
    THEN [o EXCEPT !.res = "notfound", !.reached = "rewrite",
                   !.listed = AvailableTitles(sections)]
    ELSE [o EXCEPT !.res = r.status, !.reached = "rewrite"]

SectionRewrite(o, a) ==
    IF o.res # "run" THEN o
    ELSE RewriteStep(o, UpdateSection(o.m.wt[a.file_path], a.section_title, a.new_content),
                     ParseSections(o.m.wt[a.file_path]))

\* target_path.write_text(new_file_content)
WriteSection(o, a, env) ==
    IF o.res # "run" THEN o
    ELSE WriteText(o, [a EXCEPT !.content =
                          UpdateSection(o.m.wt[a.file_path], a.section_title,
                                        a.new_content).out], env)

\* execute_tool, name == "update_section"
UpdateSectionTool(m, a, env) ==
    StageCommitPush(
        WriteSection(
            SectionRewrite(CheckPresent(Validate(EnsureRepo(Start(m), env), a), a), a),
            a, env),
        a, env)

\* execute_tool, name == "delete_file"
DeleteFile(m, a, env) ==
    Push(IndexCommit(Unlink(IndexRemove(
            ConfigGitUser(CheckPresent(Validate(EnsureRepo(Start(m), env), a), a), env),
            a, env), a, env), a, env), a, env)

\* The file lookup of read_file.
ReadStep(o, a) ==
    IF o.res # "run" THEN o
    ELSE IF ~Has(o.m.wt, a.file_path)
    THEN [o EXCEPT !.res = "notfound", !.reached = "check", !.access = a.file_path]
    ELSE [o EXCEPT !.res = "content", !.reached = "check", !.access = a.file_path]

\* execute_tool, name == "read_file"
ReadFile(m, a, env) == ReadStep(Validate(EnsureRepo(Start(m), env), a), a)

\* get_sections after the file was found: parse and print, or "No sections".
SectionsStep(o, a) ==
    IF o.res # "run" THEN o
    ELSE IF ParseSections(o.m.wt[a.file_path]) = <<>>
    THEN [o EXCEPT !.res = "nosections", !.reached = "parse"]
    ELSE [o EXCEPT !.res = "sections", !.reached = "parse"]

\* execute_tool, name == "get_sections"
GetSectionsTool(m, a, env) ==
    SectionsStep(CheckPresent(Validate(EnsureRepo(Start(m), env), a), a), a)

\* get_section_content after the file was found: the lookup by title.
LookupStep(o, a) ==
    IF o.res # "run" THEN o
    ELSE IF GetSectionByTitle(o.m.wt[a.file_path], a.section_title).found
    THEN [o EXCEPT !.res = "content", !.reached = "lookup"]
    ELSE [o EXCEPT !.res = "notfound", !.reached = "lookup",
                   !.listed = AvailableTitles(ParseSections(o.m.wt[a.file_path]))]

\* execute_tool, name == "get_section_content"
GetSectionContentTool(m, a, env) ==
    LookupStep(CheckPresent(Validate(EnsureRepo(Start(m), env), a), a), a)

\* Whether the history of HEAD touches the path p.
Touched(m, p) == Has(m.head, p) \/ \E i \in 1..Len(m.log) : p \in m.log[i].changed

\* repo.iter_commits(max_count=limit, paths=file_path): the path goes to git
\* as the caller wrote it; git refuses a path outside the repository.
HistoryStep(o, a) ==
    IF o.res # "run" THEN o
    ELSE IF a.file_path = "" THEN [o EXCEPT !.res = "history", !.reached = "git"]
    ELSE IF a.file_path \notin Files
    THEN [o EXCEPT !.res = "error", !.reached = "git", !.access = a.file_path]
    ELSE IF Touched(o.m, a.file_path)
    THEN [o EXCEPT !.res = "history", !.reached = "git", !.access = a.file_path]
    ELSE [o EXCEPT !.res = "nocommits", !.reached = "git", !.access = a.file_path]

\* execute_tool, name == "list_history"
ListHistory(m, a, env) == HistoryStep(EnsureRepo(Start(m), env), a)

\* Whether git diff HEAD shows the tracked path p.
DiffShows(m, p) == (Has(m.head, p) \/ Has(m.index, p)) /\ ~SameAt(m.wt, m.head, p)

\* repo.git.diff(from_ref, "--", file_path) with from_ref = "HEAD"; a
\* GitCommandError is answered as "Error getting diff".
DiffStep(o, a) ==
    IF o.res # "run" THEN o
    ELSE IF a.file_path = ""
    THEN [o EXCEPT !.res = IF \E p \in Files : DiffShows(o.m, p) THEN "diff" ELSE "nodiff",
                   !.reached = "git"]
    ELSE IF a.file_path \notin Files
    THEN [o EXCEPT !.res = "diff_error", !.reached = "git", !.access = a.file_path]
    ELSE [o EXCEPT !.res = IF DiffShows(o.m, a.file_path) THEN "diff" ELSE "nodiff",
                   !.reached = "git", !.access = a.file_path]

\* execute_tool, name == "get_diff"
GetDiff(m, a, env) == DiffStep(EnsureRepo(Start(m), env), a)

ListStep(o) == IF o.res # "run" THEN o ELSE [o EXCEPT !.res = "files", !.reached = "list"]

\* execute_tool, name == "list_files"
ListFiles(m, env) == ListStep(EnsureRepo(Start(m), env))

\* sync_project reporting a sync after the clone.
SyncClone_AsSynced(o) == IF o.res # "run" THEN o ELSE [o EXCEPT !.res = "synced"]

\* sync_project on an absent mirror: ensure_repo clones.
SyncClone(o) == IF o.res # "run" THEN o ELSE [o EXCEPT !.res = "cloned"]

\* sync_project on a clean mirror: pull, reporting a GitCommandError.
SyncPull(o, pc) ==
    IF pc.kind = "OtherError"
    THEN [o EXCEPT !.res = "error", !.reached = "pull", !.pull = pc]
    ELSE IF pc.kind = "GitCommandError"
    THEN [o EXCEPT !.res = "sync_error", !.reached = "pull", !.pull = pc]
    ELSE [o EXCEPT !.m = PullApply(o.m, pc), !.res = "synced", !.reached = "pull",
                   !.pull = pc]

\* sync_project pulling without looking at is_dirty().
SyncProject_NoDirtyCheck(m, env) ==
    IF ~m.exists THEN SyncClone(EnsureRepo(Start(m), env))
    ELSE SyncPull(Start(m), EffectivePull(m, env.pull))

\* execute_tool, name == "sync_project"
SyncProject(m, env) ==
    IF ~m.exists THEN SyncClone(EnsureRepo(Start(m), env))
    ELSE IF IsDirty(m) THEN [Start(m) EXCEPT !.res = "warning", !.reached = "dirty"]
    ELSE SyncPull(Start(m), EffectivePull(m, env.pull))

(***************************************************************************)
(* Spec: the tools called one after the other on one project's mirror.     *)
(* Each action is one execute_tool call, run to its return or to the       *)
(* exception call_tool turns into "Error: ..." (res = "error").  What the  *)
(* remote and the file system do is chosen with the call: env.             *)
(***************************************************************************)
Args(tool, p, c, t, n, push) ==
    [tool |-> tool, file_path |-> p, content |-> c, section_title |-> t,
     new_content |-> n, push |-> push]

\* A pull brings a new commit only while the log has room for it.
PullsFor(m) ==
    IF Len(m.log) < MaxCommits THEN PullChoices
    ELSE {pc \in PullChoices : pc.kind # "updated"}

\* The failures a pipeline can meet: without push the push step is not run.
Faults(push, steps) ==
    IF push THEN steps \cup {"none", "commit", "identity", "push", "rejected"}
    ELSE steps \cup {"none", "commit", "identity"}

\* The handler ran to its return or its exception: the mirror is as it left
\* it, and the result is on its way to the caller.
Finish(a, o) ==
    /\ mirror' = o.m
    /\ last' = [tool |-> a.tool, file_path |-> a.file_path,
                section_title |-> a.section_title, res |-> o.res,
                reached |-> o.reached, pull |-> o.pull, clone |-> o.clone,
                push |-> o.push, valid |-> o.valid, access |-> o.access,
                listed |-> o.listed]
    /\ calls' = calls + 1
    /\ UNCHANGED <<procs, sec, pth, reg, http, hist>>

\* The server starts with the cache directory as an earlier run left it:
\* no mirror, or a mirror as cloned.
Init ==
    /\ mirror \in {AbsentMirror} \cup {CloneApply(cc) : cc \in {c \in CloneChoices : c.kind = "cloned"}}
    /\ last = IdleLast
    /\ procs = IdleProcs
    /\ sec = IdleSec
    /\ pth = IdlePth
    /\ calls = 0
    /\ reg = IdleReg
    /\ http = IdleHttp
    /\ hist = IdleHist

\* A call is taken when the previous result has been returned.
Ready == last.tool = "none" /\ calls < MaxCalls

PullEnvs(m, fails) ==
    IF m.exists
    THEN {[pull |-> pc, clone |-> NoClone, fail |-> f] : pc \in PullsFor(m), f \in fails}
    ELSE {[pull |-> NoPull, clone |-> cc, fail |-> f] : cc \in CloneChoices, f \in fails}

DoCreateFile ==
    /\ Ready
    /\ Len(mirror.log) < MaxCommits
    /\ \E p \in CallerPaths, c \in FileContents, push \in BOOLEAN :
        \E env \in PullEnvs(mirror, Faults(push, {"write", "add"})) :
          Finish(Args("create_file", p, c, <<>>, <<>>, push),
                 CreateFile(mirror, Args("create_file", p, c, <<>>, <<>>, push), env))

DoEditFile ==
    /\ Ready
    /\ Len(mirror.log) < MaxCommits
    /\ \E p \in CallerPaths, c \in FileContents, push \in BOOLEAN :
        \E env \in PullEnvs(mirror, Faults(push, {"write", "add"})) :
          Finish(Args("edit_file", p, c, <<>>, <<>>, push),
                 EditFile(mirror, Args("edit_file", p, c, <<>>, <<>>, push), env))

DoUpdateSection ==
    /\ Ready
    /\ Len(mirror.log) < MaxCommits
    /\ \E p \in CallerPaths, t \in SectionArgs, n \in BodyArgs, push \in BOOLEAN :
        \E env \in PullEnvs(mirror, Faults(push, {"write", "add"})) :
          Finish(Args("update_section", p, <<>>, t, n, push),
                 UpdateSectionTool(mirror, Args("update_section", p, <<>>, t, n, push), env))

DoDeleteFile ==
    /\ Ready
    /\ Len(mirror.log) < MaxCommits
    /\ \E p \in CallerPaths, push \in BOOLEAN :
        \E env \in PullEnvs(mirror, Faults(push, {"remove", "unlink"})) :
          Finish(Args("delete_file", p, <<>>, <<>>, <<>>, push),
                 DeleteFile(mirror, Args("delete_file", p, <<>>, <<>>, <<>>, push), env))

DoReadFile ==
    /\ Ready
    /\ \E p \in CallerPaths, env \in PullEnvs(mirror, {"none"}) :
          Finish(Args("read_file", p, <<>>, <<>>, <<>>, FALSE),
                 ReadFile(mirror, Args("read_file", p, <<>>, <<>>, <<>>, FALSE), env))

DoGetSections ==
    /\ Ready
    /\ \E p \in CallerPaths, env \in PullEnvs(mirror, {"none"}) :
          Finish(Args("get_sections", p, <<>>, <<>>, <<>>, FALSE),
                 GetSectionsTool(mirror, Args("get_sections", p, <<>>, <<>>, <<>>, FALSE), env))

DoGetSectionContent ==
    /\ Ready
    /\ \E p \in CallerPaths, t \in SectionArgs, env \in PullEnvs(mirror, {"none"}) :
          Finish(Args("get_section_content", p, <<>>, t, <<>>, FALSE),
                 GetSectionContentTool(mirror, Args("get_section_content", p, <<>>, t, <<>>, FALSE), env))

\* file_path is optional in list_history and get_diff ("": not given).
DoListHistory ==
    /\ Ready
    /\ \E p \in CallerPaths \cup {""}, env \in PullEnvs(mirror, {"none"}) :
          Finish(Args("list_history", p, <<>>, <<>>, <<>>, FALSE),
                 ListHistory(mirror, Args("list_history", p, <<>>, <<>>, <<>>, FALSE), env))

DoGetDiff ==
    /\ Ready
    /\ \E p \in CallerPaths \cup {""}, env \in PullEnvs(mirror, {"none"}) :
          Finish(Args("get_diff", p, <<>>, <<>>, <<>>, FALSE),
                 GetDiff(mirror, Args("get_diff", p, <<>>, <<>>, <<>>, FALSE), env))

DoListFiles ==
    /\ Ready
    /\ \E env \in PullEnvs(mirror, {"none"}) :
          Finish(Args("list_files", "", <<>>, <<>>, <<>>, FALSE), ListFiles(mirror, env))

DoSyncProject ==
    /\ Ready
    /\ \E env \in PullEnvs(mirror, {"none"}) :
          Finish(Args("sync_project", "", <<>>, <<>>, <<>>, FALSE), SyncProject(mirror, env))

\* call_tool hands the result to the caller; the server waits for the next call.
Return ==
    /\ last.tool # "none"
    /\ last' = IdleLast
    /\ UNCHANGED <<mirror, procs, sec, pth, calls, reg, http, hist>>

Next ==
    \/ DoCreateFile
    \/ DoEditFile
    \/ DoUpdateSection
    \/ DoDeleteFile
    \/ DoReadFile
    \/ DoGetSections
    \/ DoGetSectionContent
    \/ DoListHistory
    \/ DoGetDiff
    \/ DoListFiles
    \/ DoSyncProject
    \/ Return

Spec == Init /\ [][Next]_vars

(***************************************************************************)
(* SpecConc: the two servers of the repository, the MCP stdio server       *)
(* (server.py, main) and the HTTP server (fastapi_server.py), running      *)
(* against the same cache directory.  Each is its own operating-system     *)
(* process with its own event loop, and execute_tool takes no lock, so     *)
(* the steps of one server's call interleave with the other's.  Inside     *)
(* one server a call runs to its end: execute_tool never awaits.           *)
(***************************************************************************)
Servers == {"mcp", "http"}

ConcTools == {"create_file", "edit_file"}

\* Both servers find the mirror as cloned, the remote quiet, no step failing.
ConcMirror == CloneApply([kind |-> "cloned", tree |-> [p \in {"a.tex"} |-> DocX]])

ConcEnv == [pull |-> [kind |-> "uptodate", path |-> "", content |-> <<>>],
            clone |-> NoClone, fail |-> "none"]

NoArgs == Args("none", "", <<>>, <<>>, <<>>, FALSE)

\* A server before its call: nothing of a handler's progress yet.
IdleProc == [pc |-> "idle", a |-> NoArgs, res |-> "none", reached |-> "start",
             pull |-> NoPull, clone |-> NoClone, push |-> "none",
             valid |-> "none", access |-> "", listed |-> <<>>]

InitConc ==
    /\ mirror = ConcMirror
    /\ last = IdleLast
    /\ procs = [s \in Servers |-> IdleProc]
    /\ sec = IdleSec
    /\ pth = IdlePth
    /\ calls = 0
    /\ reg = IdleReg
    /\ http = IdleHttp
    /\ hist = IdleHist

\* The handler's progress as the server s holds it, on the shared mirror.
Progress(pr, m) ==
    [m |-> m, res |-> pr.res, reached |-> pr.reached, pull |-> pr.pull,
     clone |-> pr.clone, push |-> pr.push, valid |-> pr.valid, access |-> pr.access,
     listed |-> pr.listed]

\* The server goes on to the step pc, or is done once the handler returned
\* or raised.
Proceed(s, pr, o, pc) ==
    /\ mirror' = o.m
    /\ procs' = [procs EXCEPT ![s] =
                    [pc |-> IF o.res = "run" THEN pc ELSE "done", a |-> pr.a,
                     res |-> o.res, reached |-> o.reached, pull |-> o.pull,
                     clone |-> o.clone, push |-> o.push, valid |-> o.valid,
                     access |-> o.access, listed |-> o.listed]]
    /\ UNCHANGED <<last, sec, pth, calls, reg, http, hist>>

\* A request reaches the server s: execute_tool(name, arguments) starts.
ConcCall(s) ==
    /\ procs[s].pc = "idle"
    /\ \E tool \in ConcTools, p \in Files, c \in FileContents, push \in BOOLEAN :
         procs' = [procs EXCEPT ![s] =
                      [IdleProc EXCEPT !.pc = "ensure", !.res = "run",
                                       !.a = Args(tool, p, c, <<>>, <<>>, push)]]
    /\ UNCHANGED <<mirror, last, sec, pth, calls, reg, http, hist>>

ConcEnsure(s) ==
    /\ procs[s].pc = "ensure"
    /\ Proceed(s, procs[s], EnsureRepo(Progress(procs[s], mirror), ConcEnv), "validate")

ConcValidate(s) ==
    /\ procs[s].pc = "validate"
    /\ Proceed(s, procs[s], Validate(Progress(procs[s], mirror), procs[s].a), "check")

CheckStep(o, a) ==
    IF a.tool = "create_file" THEN CheckAbsent(o, a) ELSE CheckPresent(o, a)

ConcCheck(s) ==
    /\ procs[s].pc = "check"
    /\ Proceed(s, procs[s], CheckStep(Progress(procs[s], mirror), procs[s].a), "write")

ConcWrite(s) ==
    /\ procs[s].pc = "write"
    /\ Proceed(s, procs[s],
               WriteText(Progress(procs[s], mirror), procs[s].a, ConcEnv), "identity")

ConcIdentity(s) ==
    /\ procs[s].pc = "identity"
    /\ Proceed(s, procs[s], ConfigGitUser(Progress(procs[s], mirror), ConcEnv), "add")

ConcAdd(s) ==
    /\ procs[s].pc = "add"
    /\ Proceed(s, procs[s],
               IndexAdd(Progress(procs[s], mirror), procs[s].a, ConcEnv), "commit")

ConcCommit(s) ==
    /\ procs[s].pc = "commit"
    /\ Proceed(s, procs[s],
               IndexCommit(Progress(procs[s], mirror), procs[s].a, ConcEnv), "push")

ConcPush(s) ==
    /\ procs[s].pc = "push"
    /\ Proceed(s, procs[s],
               Push(Progress(procs[s], mirror), procs[s].a, ConcEnv), "done")

NextConc ==
    \E s \in Servers :
        \/ ConcCall(s)
        \/ ConcEnsure(s)
        \/ ConcValidate(s)
        \/ ConcCheck(s)
        \/ ConcWrite(s)
        \/ ConcIdentity(s)
        \/ ConcAdd(s)
        \/ ConcCommit(s)
        \/ ConcPush(s)

SpecConc == InitConc /\ [][NextConc]_vars

(***************************************************************************)
(* Claims about the section model (SpecSection).                           *)
(***************************************************************************)
\* The section update_section addresses: the first title match of the parse.
TargetIndex(content, section_title) ==
    SetMin(TitleMatches(ParseSections(content), section_title))

\* header-end and content-end of the i-th section as the parser finds them.
HeaderEndOf(content, i) == FindIter(content, 0)[i].end

ContentEndOf(content, i) == ParseSections(content)[i].end_pos

HasSection(content, section_title) ==
    TitleMatches(ParseSections(content), section_title) # {}

LocalUpdate(content, out, he, ce, new_content) ==
    out = Slice(content, 0, he) \o <<"\n">> \o Strip(new_content) \o <<"\n">>
            \o SliceFrom(content, ce)

\* C1: for every document and every title that matches a section,
\* update_section changes only the bytes between the target section's own
\* header-end and its content-end: the result is
\* text[0:header-end] + "\n" + trimmed(new_content) + "\n" + text[content-end:].
C1_UpdateLocality ==
    (sec.tool = "update_section" /\ HasSection(sec.content, sec.section_title))
    => /\ sec.status = "ok"
       /\ LocalUpdate(sec.content, sec.out,
                      HeaderEndOf(sec.content, TargetIndex(sec.content, sec.section_title)),
                      ContentEndOf(sec.content, TargetIndex(sec.content, sec.section_title)),
                      sec.new_content)

\* out differs from content only by whitespace directly around the body
\* content[he:ce].
SameButBodyWhitespace(content, out, he, tail) ==
    /\ Len(out) >= he + tail
    /\ Slice(out, 0, he) = Slice(content, 0, he)
    /\ SliceFrom(out, Len(out) - tail) = SliceFrom(content, Len(content) - tail)
    /\ Strip(Slice(out, he, Len(out) - tail)) = Strip(Slice(content, he, Len(content) - tail))

\* C10: round trip: reading a section with get_section_content and writing
\* the returned text back unchanged with update_section yields the original
\* document except for whitespace directly around the section body.
C10_RoundTrip ==
    sec.tool = "write_back"
    => /\ sec.status = "ok"
       /\ SameButBodyWhitespace(
              sec.content, sec.out,
              HeaderEndOf(sec.content, TargetIndex(sec.content, sec.section_title)),
              Len(sec.content)
                - ContentEndOf(sec.content, TargetIndex(sec.content, sec.section_title)))

\* Consecutive sections touch, and the last one ends with the document.
Tiles(S, n) ==
    \A i \in 1..Len(S) :
        /\ S[i].start_pos < S[i].end_pos
        /\ i < Len(S) => /\ S[i].start_pos < S[i + 1].start_pos
                         /\ S[i].end_pos = S[i + 1].start_pos
        /\ i = Len(S) => S[i].end_pos = n

\* C11: for every document, the sections parse_sections returns, in order,
\* have strictly increasing start offsets, and each section's content-end is
\* the next section's start (the document length for the last): the ranges
\* tile [first start, document length) with no gap and no overlap.
C11_SectionsTile ==
    sec.tool = "get_sections" => Tiles(sec.sections, Len(sec.content))

\* A document with several sections was listed.
C11_Witness == sec.tool = "get_sections" /\ Len(sec.sections) >= 2

\* The sections whose title is t ignoring case.
TitledLike(S, t) == {i \in 1..Len(S) : Lower(S[i].title) = Lower(t)}

\* out is what reading the section s returns.
ReadsSection(content, out, s) == out = Slice(content, s.start_pos, s.end_pos)

\* out is content with new_content put in place of what follows a heading
\* ending at or before he, up to the content-end of the section s.
UpdatesSection(content, out, s, he, new_content) ==
    \E h \in 0..he :
        out = Slice(content, 0, h) \o <<"\n">> \o Strip(new_content) \o <<"\n">>
                \o SliceFrom(content, s.end_pos)

FirstAddressed(x, s, he) ==
    CASE x.tool = "get_section_content" ->
            x.status = "ok" /\ ReadsSection(x.content, x.out, s)
      [] x.tool = "update_section" ->
            x.status = "ok" => UpdatesSection(x.content, x.out, s, he, x.new_content)
      [] x.tool = "write_back" ->
            /\ ReadsSection(x.content, x.read, s)
            /\ x.status = "ok" => UpdatesSection(x.content, x.out, s, he, x.read)
      [] OTHER -> TRUE

LookupAt(x, S, M, J) ==
    IF J = {} THEN x.status = "notfound"
    ELSE FirstAddressed(x, S[SetMin(J)], M[SetMin(J)].end)

\* C12: lookup by title selects, in get_section_content and in
\* update_section alike, the first section in document order whose title
\* equals the requested title ignoring case; with several sections of that
\* title both address that first one, never a later one.
C12_FirstMatchAddressed ==
    sec.tool \in {"get_section_content", "update_section", "write_back"}
    => LookupAt(sec, ParseSections(sec.content), FindIter(sec.content, 0),
                TitledLike(ParseSections(sec.content), sec.section_title))

\* A section was read and written where two sections carry the title.
C12_Witness ==
    /\ sec.tool = "write_back"
    /\ sec.status = "ok"
    /\ \E i, j \in TitledLike(ParseSections(sec.content), sec.section_title) : i < j

\* The body of the i-th section: from its header-end to its content-end.
BodyOf(content, i) ==
    Slice(content, HeaderEndOf(content, i), ContentEndOf(content, i))

\* C18: the section-read operation returns, for the located section, the
\* section body: the substring of the document from the section's
\* header-end to its content-end, with the heading command excluded.
C18_ReadReturnsBody ==
    (sec.tool = "get_section_content" /\ sec.status = "ok")
    => sec.out = BodyOf(sec.content, TargetIndex(sec.content, sec.section_title))

\* The preview of the trimmed body: cut to PreviewLen characters, with the
\* ellipsis only when the body is longer.
PreviewOf(body) ==
    IF Len(body) > PreviewLen THEN Slice(body, 0, PreviewLen) \o Ellipsis ELSE body

\* C19: for every section that list-sections reports, the preview shown is
\* the whitespace-trimmed content between header-end and content-end, cut
\* to 200 characters, with an ellipsis appended only when the content is
\* longer than 200 characters: a section whose content is "Hello" is
\* reported with preview exactly "Hello".
C19_PreviewShown ==
    sec.tool = "get_sections"
    => \A i \in 1..Len(sec.shown) :
          sec.shown[i].preview = PreviewOf(Strip(BodyOf(sec.content, i)))

\* C29: update-section is idempotent: for every document, matching title
\* and new content without heading commands, applying the same update
\* twice yields the same document as applying it once.
C29_UpdateIdempotent ==
    sec.tool = "update_again" => sec.out = sec.once

\* The header match update_section makes for the section its lookup found.
HeaderMatch(content, section_title) ==
    SearchHeader(content,
                 ParseSections(content)[TargetIndex(content, section_title)].type,
                 ParseSections(content)[TargetIndex(content, section_title)].title)

\* C30: once the title lookup of update-section has found a section, the
\* header re-match over the whole document succeeds and ends at that
\* section's header-end as found by the parser; the "could not locate
\* section header" failure is never the result.
C30_HeaderRematchAgrees ==
    (sec.tool = "update_section" /\ HasSection(sec.content, sec.section_title))
    => /\ sec.status # "noheader"
       /\ HeaderMatch(sec.content, sec.section_title).ok
       /\ HeaderMatch(sec.content, sec.section_title).end
            = HeaderEndOf(sec.content, TargetIndex(sec.content, sec.section_title))

(***************************************************************************)
(* Claims about the tools on the mirror (Spec).                            *)
(***************************************************************************)
MutatingTools == {"create_file", "edit_file", "update_section", "delete_file"}

\* C3: every commit a create, edit, update-section or delete produces holds
\* exactly one changed path, the path of the operation that produced it,
\* also after operations that failed part-way: no commit carries a change
\* staged by an earlier operation.
C3_OneChangedPathPerCommit ==
    \A i \in 1..Len(mirror.log) :
        mirror.log[i].tool \in MutatingTools
        => mirror.log[i].changed = {mirror.log[i].path}

\* The mirror as ensure_repo leaves it in a call that recorded l.
AfterEnsure(m, l) ==
    IF m.exists THEN PullApply(m, l.pull)
    ELSE IF l.clone.kind = "cloned" THEN CloneApply(l.clone)
    ELSE m

EnsureRaised(l) == l.res = "error" /\ l.reached = "ensure"

\* validate_path refused the caller's path.
PathRefused(l) == l.res = "error" /\ l.reached = "validate"

\* C4 as claimed: create-file on a path that already exists in the mirror
\* fails (with the conflict result, or earlier inside ensure_repo), the
\* file's bytes are unchanged, nothing is staged and the number of commits
\* is the same as before the call.
C4_CreateExistingAsBeforeCall ==
    [][(last'.tool = "create_file" /\ Has(mirror.wt, last'.file_path))
       => /\ (last'.res = "exists" \/ EnsureRaised(last'))
          /\ mirror'.wt = mirror.wt
          /\ mirror'.index = mirror.index
          /\ Len(mirror'.log) = Len(mirror.log)]_vars

\* C4 as amended: create-file on a path that exists in the mirror as
\* ensure_repo left it writes nothing, stages nothing, commits nothing and
\* pushes nothing: after the call the mirror is exactly what the pull (or
\* clone) inside ensure_repo made of it, and the result is the conflict
\* error whenever ensure_repo returned.
C4_CreateExistingOnlyEnsures ==
    [][(last'.tool = "create_file"
          /\ Has(AfterEnsure(mirror, last').wt, last'.file_path))
       => /\ mirror' = AfterEnsure(mirror, last')
          /\ last'.push = "none"
          /\ (last'.res = "exists" \/ EnsureRaised(last'))]_vars

\* A create-file call met an existing path after its pull brought a commit.
C4_Witness ==
    last.tool = "create_file" /\ last.res = "exists" /\ last.pull.kind = "updated"

\* C5: edit-file, update-section and delete-file on a path that does not
\* exist in the mirror (as ensure_repo left it) fail, with "not found" or
\* earlier in ensure_repo or validate_path, without creating the file,
\* without staging anything and without a commit or a push.
C5_MissingTargetFails ==
    [][(last'.tool \in {"edit_file", "update_section", "delete_file"}
          /\ ~Has(AfterEnsure(mirror, last').wt, last'.file_path))
       => /\ mirror' = AfterEnsure(mirror, last')
          /\ last'.push = "none"
          /\ (last'.res = "notfound" \/ EnsureRaised(last') \/ PathRefused(last'))]_vars

\* Each of the three tools has answered "not found".
C5_Witness ==
    /\ last.tool \in {"edit_file", "update_section", "delete_file"}
    /\ last.res = "notfound"
    /\ ~Has(mirror.wt, last.file_path)
    /\ mirror.exists

\* C6: when the push of a mutating operation fails after the local commit
\* succeeded, the commit stays in the mirror and the result says the change
\* succeeded locally but is unpushed, not that it failed or was pushed.
C6_PushFailureReportedUnpushed ==
    last.push \in {"raised", "rejected"}
    => /\ Len(mirror.log) > 0
       /\ mirror.log[Len(mirror.log)].path = last.file_path
       /\ last.res = "notpushed"

\* The mirror after the call a ran alone, from ensure_repo to its return.
RunAlone(m, a) ==
    IF a.tool = "create_file" THEN CreateFile(m, a, ConcEnv).m
    ELSE EditFile(m, a, ConcEnv).m

Serial(a, b) == RunAlone(RunAlone(ConcMirror, a), b)

\* C7: two mutating operations issued concurrently on the same project leave
\* the mirror (working tree, index and commit history) as running the two
\* one after the other, in one order or the other, leaves it.
C7_SerialOutcome ==
    (procs["mcp"].pc = "done" /\ procs["http"].pc = "done")
    => mirror \in {Serial(procs["mcp"].a, procs["http"].a),
                   Serial(procs["http"].a, procs["mcp"].a)}

\* C14: every operation that takes a caller-supplied file path passes it
\* through validate_path before a file or git access uses it, and a path
\* that escapes the mirror root is rejected before any such access.
C14_PathValidatedBeforeUse ==
    /\ last.access # "" => last.valid = "ok"
    /\ last.file_path = OutsidePath
       => /\ last.access = ""
          /\ (PathRefused(last) \/ EnsureRaised(last))

\* C15: when a step of a mutating operation fails (write, identity setup,
\* staging, unlink, commit or push), no partial mutation is left
\* uncommitted: at the end of the operation the index holds no staged
\* change that has no commit.
C15_NothingStagedUncommitted ==
    last.tool \in MutatingTools => mirror.index = mirror.head

\* The titles of the sections of the file p in the mirror m, in order.
TitlesIn(m, p) == AvailableTitles(ParseSections(m.wt[p]))

NoSectionTitled(m, p, t) == TitledLike(ParseSections(m.wt[p]), t) = {}

\* C17: update-section with a title that matches no section of the
\* document fails with a not-found result that lists the titles of all
\* sections found, and leaves the document bytes unchanged, with nothing
\* staged and no commit produced.
C17_UnknownTitleChangesNothing ==
    [][(/\ last'.tool = "update_section"
        /\ Has(AfterEnsure(mirror, last').wt, last'.file_path)
        /\ NoSectionTitled(AfterEnsure(mirror, last'), last'.file_path,
                           last'.section_title))
       => /\ mirror' = AfterEnsure(mirror, last')
          /\ last'.push = "none"
          /\ \/ EnsureRaised(last')
             \/ /\ last'.res = "notfound"
                /\ last'.reached = "rewrite"
                /\ last'.listed = TitlesIn(AfterEnsure(mirror, last'), last'.file_path)]_vars

\* update_section answered that no section has the title, naming the ones found.
C17_Witness ==
    /\ last.tool = "update_section"
    /\ last.res = "notfound"
    /\ last.reached = "rewrite"
    /\ last.listed # <<>>

C20_SyncAbsentClones ==
    [][(last'.tool = "sync_project" /\ ~mirror.exists)
       => /\ last'.pull.kind = "none"
          /\ last'.clone.kind \in {"cloned", "clone_failed"}
          /\ last'.clone.kind = "cloned"
             => /\ last'.res = "cloned"
                /\ mirror'.exists
                /\ mirror' = CloneApply(last'.clone)
          /\ last'.clone.kind = "clone_failed"
             => /\ EnsureRaised(last')
                /\ mirror' = mirror]_vars

\* sync cloned a project that had no mirror.
C20_Witness ==
    /\ last.tool = "sync_project"
    /\ last.res = "cloned"
    /\ last.clone.kind = "cloned"
    /\ mirror.exists

\* C9: when the mirror exists and the pull inside ensure fails, ensure does
\* not fail: the operation goes on against the existing mirror, for every
\* kind of pull failure.
C9_PullFailureNeverAborts ==
    (last.tool \in MutatingTools \cup {"read_file", "list_files"}
       /\ last.pull.kind \in {"GitCommandError", "OtherError"})
    => ~EnsureRaised(last)

\* The mirror holds a local change that has no commit: a staged change, a
\* modified or removed tracked file, or a file written and never staged.
Uncommitted(m) == m.index # m.head \/ m.wt # m.index

\* C22: for every operation, not only sync, a pull is never attempted on a
\* mirror that holds uncommitted local changes.
C22_NoPullOverUncommitted ==
    [][(mirror.exists /\ Uncommitted(mirror)) => last'.pull.kind = "none"]_vars

\* C23: the dirty check used by sync is true exactly when the mirror holds
\* a local change that is not yet committed: a modified tracked file, a
\* staged change, or a newly written file that was never staged.
C23_DirtyIffUncommitted ==
    mirror.exists => (IsDirty(mirror) <=> Uncommitted(mirror))

\* The file-system side effect of the call that recorded l is in the
\* working tree m: the file removed (delete), the file written (the others).
SideEffectDone(m, l) ==
    IF l.tool = "delete_file" THEN ~Has(m.wt, l.file_path)
    ELSE Has(m.wt, l.file_path)

\* C25: every mutating operation performs its steps in the order ensure
\* mirror, validate path, file-system side effect, ensure commit identity,
\* stage, commit, push: a call that configured the identity or staged a
\* change has performed its file-system side effect before, and a push is
\* attempted only after the call's commit exists.
C25_StepsInOrder ==
    [][last'.tool \in MutatingTools
       => /\ (mirror'.identity /\ ~mirror.identity) => SideEffectDone(mirror', last')
          /\ mirror'.index # AfterEnsure(mirror, last').index
             => SideEffectDone(mirror', last')
          /\ last'.push # "none"
             => Len(mirror'.log) = Len(AfterEnsure(mirror, last').log) + 1]_vars

\* The tools that begin with ensure_repo whatever the mirror's state.
EnsuringTools ==
    MutatingTools \cup {"read_file", "get_sections", "get_section_content",
                        "list_history", "get_diff", "list_files"}

\* C26: ensure clones exactly when the mirror directory is absent and
\* attempts a pull exactly when it is present, never both in one call; no
\* operation removes a mirror, and a mirror comes to exist only by a clone
\* that succeeded.
C26_MirrorLifecycle ==
    [][/\ (last'.tool \in EnsuringTools /\ mirror.exists)
          => last'.pull.kind # "none" /\ last'.clone.kind = "none"
       /\ (last'.tool \in EnsuringTools /\ ~mirror.exists)
          => last'.pull.kind = "none" /\ last'.clone.kind \in {"cloned", "clone_failed"}
       /\ mirror.exists => mirror'.exists
       /\ (~mirror.exists /\ mirror'.exists) => last'.clone.kind = "cloned"]_vars

\* A call found the mirror present, with a commit of an earlier call, and
\* attempted its pull.
C26_Witness ==
    /\ last.tool \in EnsuringTools
    /\ last.pull.kind # "none"
    /\ mirror.exists
    /\ mirror.log # <<>>
    /\ calls = MaxCalls

ReadOnlyTools ==
    {"list_files", "read_file", "get_sections", "get_section_content",
     "list_history", "get_diff"}

\* C27: a read-only operation (list-files, read-file, list-sections,
\* read-section, list-history, diff) leaves the working tree, the index and
\* the commit history of an existing mirror unmodified while it runs.
C27_ReadOnlyLeavesMirror ==
    [][(last'.tool \in ReadOnlyTools /\ mirror.exists)
       => /\ mirror'.wt = mirror.wt
          /\ mirror'.index = mirror.index
          /\ mirror'.head = mirror.head
          /\ mirror'.log = mirror.log]_vars

(***************************************************************************)
(* Claims about the project registry (SpecRegistry).                       *)
(***************************************************************************)
\* The keys configured, by the file or by the two environment variables.
Configured(r) ==
    IF r.file THEN {r.projects[i] : i \in 1..Len(r.projects)}
    ELSE IF r.env_id /\ r.env_token THEN {"default"}
    ELSE {}

ConfiguredDefault(r) == IF r.file THEN r.defaultProject ELSE "default"

\* C16: project lookup with the name omitted succeeds whenever at least one
\* project is configured, returning the configured default project, or the
\* sole configured project when no default is configured; it fails only
\* when no project is configured.
C16_OmittedNameResolves ==
    (reg.status # "none" /\ reg.project_name = None)
    => IF Configured(reg) = {} THEN reg.status = "noprojects"
       ELSE /\ reg.status = "ok"
            /\ ConfiguredDefault(reg) # None => reg.key = ConfiguredDefault(reg)
            /\ (ConfiguredDefault(reg) = None /\ Configured(reg) = {reg.projects[1]})
               => reg.key = reg.projects[1]

\* C32: every tool name an HTTP endpoint passes to execute_tool is a tool
\* that execute_tool handles and that list_tools advertises: no endpoint
\* reaches the "Unknown tool" branch or answers such a call as a success.
C32_EndpointsCallKnownTools ==
    (http.status # 0 /\ http.executed)
    => /\ http.endpoint \in HandledTools \cap ListedTools
       /\ http.result # "unknown_tool"

(***************************************************************************)
(* Claims about list_history (SpecHistory).                                *)
(***************************************************************************)
\* The most commits the call may return: min(limit, 100), 20 for an omitted
\* limit, none for a limit below zero.
AllowedCommits(h) ==
    IF ~h.given THEN DefaultLimit
    ELSE IF h.limit < 0 THEN 0
    ELSE Min(h.limit, MaxLimit)

\* C31: list-history returns at most min(limit, 100) commits for every
\* integer limit the caller supplies, zero and negative values included,
\* and never more than 100; with limit omitted it returns at most 20.
C31_HistoryBounded ==
    hist.status # "none"
    => hist.returned <= AllowedCommits(hist) /\ hist.returned <= MaxLimit

(***************************************************************************)
(* Claims about the HTTP server (SpecHttp).                                *)
(***************************************************************************)
\* The header is "Bearer " followed by the configured key.
ValidAuthorization(h) == h.authorization = Bearer \o h.API_KEY

\* C21: when an API key is configured on the HTTP server, a request to the
\* list-files or read-file endpoint that carries no valid Authorization
\* header is rejected with status 401 and the tool is not executed.
C21_ReadEndpointsNeedKey ==
    (/\ http.status # 0
     /\ http.API_KEY # <<>>
     /\ http.endpoint \in {"list_files", "read_file"}
     /\ ~ValidAuthorization(http))
    => http.status = 401 /\ ~http.executed

(***************************************************************************)
(* Claims about the path resolver (SpecPath).                              *)
(***************************************************************************)
\* root is the path itself or one of its ancestors, segment by segment.
IsWithin(root, path) == Len(root) <= Len(path) /\ SubSeq(path, 1, Len(root)) = root

\* The path string has a ".." segment or starts as an absolute path.
HasDotDot(t) == \E i \in 1..Len(SplitPath(t, <<>>)) : SplitPath(t, <<>>)[i] = <<".", ".">>

IsAbsolute(t) == t # <<>> /\ Head(t) = "/"

\* C13: every caller-supplied path that contains a ".." segment or begins
\* with an absolute-path prefix is rejected with a path-escape error,
\* whatever it resolves to.
C13_DotDotAndAbsoluteRejected ==
    (pth.status # "none" /\ (HasDotDot(pth.target_path) \/ IsAbsolute(pth.target_path)))
    => pth.status = "escape"

\* C2: validate_path either fails with a path-escape error or returns a
\* path equal to the root or with the root as a path-segment ancestor; it
\* never returns a path outside the root, such as a sibling directory whose
\* name starts with the root's name.
C2_ResolvedInsideRoot ==
    pth.status = "ok" => IsWithin(RepoPath(pth.project_id), pth.resolved)

\* The path lies in the mirror of a project other than the one called.
InOtherMirror(project_id, path) ==
    \E id \in ProjectIds \ {project_id} : IsWithin(RepoPath(id), path)

\* C24: an operation issued for project P reads, writes and deletes only
\* inside P's own mirror directory, for every caller path and every pair of
\* project identifiers, also when one is a string prefix of the other: the
\* path validate_path hands to the operation is in no other project's mirror.
C24_OtherMirrorsUntouched ==
    pth.status = "ok" => ~InOtherMirror(pth.project_id, pth.resolved)

\* The caller's path names a file below the mirror root: it does not end in
\* "/" and resolves to a path inside the root other than the root.
NamesFileInside(r) ==
    /\ r.target_path # <<>>
    /\ r.target_path[Len(r.target_path)] # "/"
    /\ IsWithin(RepoPath(r.project_id), r.resolved)
    /\ r.resolved # RepoPath(r.project_id)

\* C28: for every caller path validate_path accepts, also one that is not
\* normalised, the path that is staged and committed denotes the same file
\* as the validated path that is written on disk.
C28_StagedIsWrittenPath ==
    (pth.status = "ok" /\ NamesFileInside(pth))
    => RepoPath(pth.project_id) \o pth.staged = pth.resolved

====
